---- MODULE Spec2Model ----
(***************************************************************************)
(* Model of assembly-cli: the transcription flow (submit, poll, write the  *)
(* transcript) of src/transcribe.rs (src/main.rs is the earlier            *)
(* single-file copy of the same code) and the question flow of             *)
(* src/question_answer.rs.                                                 *)
(*                                                                         *)
(* JSON text is a sequence of tokens, a serde_json::Value is a record      *)
(* [k, s, c]: kind, scalar text, children.  Parsing and printing are       *)
(* computed, token by token.                                               *)
(***************************************************************************)
EXTENDS Integers, Sequences, FiniteSets, TLC

(* ------------------------------ bounds -------------------------------- *)
\* cap on the number of GETs one run of the poll loop may issue
MaxPolls == 3
\* cap on the number of invocations for one job
MaxRuns == 2

(* -------------------------- program constants ------------------------- *)
\* sleep(Duration::from_secs(10))
PollInterval == 10

\* value of TRANSCRIPT_URL / QUESTION_URL read from the environment
ApiUrl == "TRANSCRIPT_URL"
QuestionUrl == "QUESTION_URL"

(* ------------------------------ JSON text ----------------------------- *)
Tok(t, x) == [t |-> t, x |-> x]
LBrace == Tok("{", "")
RBrace == Tok("}", "")
LBrack == Tok("[", "")
RBrack == Tok("]", "")
Colon == Tok(":", "")
Comma == Tok(",", "")
TStr(x) == Tok("str", x)
TNum(x) == Tok("num", x)
TLit(x) == Tok("lit", x)
TWs(x) == Tok("ws", x)
\* text of an error message that is not JSON
Msg(x) == <<Tok("msg", x)>>

(* --------------------------- serde_json::Value ------------------------ *)
JNull == [k |-> "null", s |-> "null", c |-> <<>>]
JBool(x) == [k |-> "bool", s |-> x, c |-> <<>>]
JNum(x) == [k |-> "num", s |-> x, c |-> <<>>]
JStr(x) == [k |-> "str", s |-> x, c |-> <<>>]
Entry(key, val) == [key |-> key, val |-> val]
JArr(items) ==
  [k |-> "arr", s |-> "", c |-> [i \in 1..Len(items) |-> Entry("", items[i])]]
JObj(entries) == [k |-> "obj", s |-> "", c |-> entries]

\* the keys that occur, in the order a BTreeMap<String, Value> keeps them
KeyOrder ==
  <<"answer", "code", "error", "id", "question", "response", "status", "text">>
KeyRank(key) == CHOOSE i \in 1..Len(KeyOrder) : KeyOrder[i] = key

\* Map::insert: replaces the value of a key already present, keeps key order
RECURSIVE MapInsert(_, _, _)
MapInsert(entries, key, val) ==
  IF entries = <<>> THEN <<Entry(key, val)>>
  ELSE IF Head(entries).key = key THEN <<Entry(key, val)>> \o Tail(entries)
  ELSE IF KeyRank(key) < KeyRank(Head(entries).key)
       THEN <<Entry(key, val)>> \o entries
  ELSE <<Head(entries)>> \o MapInsert(Tail(entries), key, val)

NoneV == [some |-> FALSE, v |-> JNull]
SomeV(v) == [some |-> TRUE, v |-> v]
NoneS == [some |-> FALSE, v |-> ""]
SomeS(x) == [some |-> TRUE, v |-> x]

\* Value::get(&str): Some only for an object that has the key
get(v, key) ==
  IF v.k = "obj" /\ \E i \in 1..Len(v.c) : v.c[i].key = key
  THEN SomeV(v.c[CHOOSE i \in 1..Len(v.c) : v.c[i].key = key].val)
  ELSE NoneV

\* Value::as_str: Some only for a string
as_str(v) == IF v.k = "str" THEN SomeS(v.s) ELSE NoneS

(* ------------------------ serde_json::from_slice ---------------------- *)
RECURSIVE SkipWs(_)
SkipWs(ts) ==
  IF ts # <<>> /\ Head(ts).t = "ws" THEN SkipWs(Tail(ts)) ELSE ts

PFail == [ok |-> FALSE, val |-> JNull, rest |-> <<>>]
POk(v, r) == [ok |-> TRUE, val |-> v, rest |-> r]

RECURSIVE ParseValue(_), ParseMembers(_, _), ParseElements(_, _)
ParseValue(toks) ==
  LET ts == SkipWs(toks) IN
  IF ts = <<>> THEN PFail
  ELSE LET h == Head(ts)
           r == SkipWs(Tail(ts))
       IN CASE h.t = "str" -> POk(JStr(h.x), Tail(ts))
            [] h.t = "num" -> POk(JNum(h.x), Tail(ts))
            [] h.t = "lit" ->
                 IF h.x = "null" THEN POk(JNull, Tail(ts))
                 ELSE IF h.x \in {"true", "false"} THEN POk(JBool(h.x), Tail(ts))
                 ELSE PFail
            [] h.t = "{" ->
                 IF r # <<>> /\ Head(r).t = "}" THEN POk(JObj(<<>>), Tail(r))
                 ELSE ParseMembers(r, <<>>)
            [] h.t = "[" ->
                 IF r # <<>> /\ Head(r).t = "]" THEN POk(JArr(<<>>), Tail(r))
                 ELSE ParseElements(r, <<>>)
            [] OTHER -> PFail

\* after "{" or ",": "key" : value, then "," or "}"
ParseMembers(ts, acc) ==
  IF ts = <<>> \/ Head(ts).t # "str" THEN PFail
  ELSE LET key == Head(ts).x
           r1 == SkipWs(Tail(ts))
       IN IF r1 = <<>> \/ Head(r1).t # ":" THEN PFail
          ELSE LET pv == ParseValue(Tail(r1))
                   r2 == SkipWs(pv.rest)
                   acc2 == MapInsert(acc, key, pv.val)
               IN IF ~pv.ok \/ r2 = <<>> THEN PFail
                  ELSE IF Head(r2).t = "}" THEN POk(JObj(acc2), Tail(r2))
                  ELSE IF Head(r2).t = "," THEN ParseMembers(SkipWs(Tail(r2)), acc2)
                  ELSE PFail

\* after "[" or ",": value, then "," or "]"
ParseElements(ts, acc) ==
  LET pv == ParseValue(ts)
      r2 == SkipWs(pv.rest)
      acc2 == Append(acc, pv.val)
  IN IF ~pv.ok \/ r2 = <<>> THEN PFail
     ELSE IF Head(r2).t = "]" THEN POk(JArr(acc2), Tail(r2))
     ELSE IF Head(r2).t = "," THEN ParseElements(SkipWs(Tail(r2)), acc2)
     ELSE PFail

\* a whole document: one value, then nothing but white space
FromText(text) ==
  LET pv == ParseValue(text)
  IN IF pv.ok /\ SkipWs(pv.rest) = <<>> THEN POk(pv.val, <<>>) ELSE PFail

(* ------------------- serde_json printing of a Value ------------------- *)
Indent(d) ==
  CASE d = 0 -> TWs("\n")
    [] d = 1 -> TWs("\n  ")
    [] d = 2 -> TWs("\n    ")
    [] d = 3 -> TWs("\n      ")
    [] OTHER -> TWs("\n        ")

Scalar(v) ==
  CASE v.k = "str" -> <<TStr(v.s)>>
    [] v.k = "num" -> <<TNum(v.s)>>
    [] OTHER -> <<TLit(v.s)>>

\* Display for Value: compact JSON
RECURSIVE Compact(_), CompactItems(_, _)
Compact(v) ==
  CASE v.k = "obj" -> <<LBrace>> \o CompactItems(v.c, TRUE) \o <<RBrace>>
    [] v.k = "arr" -> <<LBrack>> \o CompactItems(v.c, FALSE) \o <<RBrack>>
    [] OTHER -> Scalar(v)
CompactItems(es, keyed) ==
  IF es = <<>> THEN <<>>
  ELSE (IF keyed THEN <<TStr(Head(es).key), Colon>> ELSE <<>>)
       \o Compact(Head(es).val)
       \o (IF Tail(es) = <<>> THEN <<>> ELSE <<Comma>>)
       \o CompactItems(Tail(es), keyed)

\* serde_json::to_string_pretty: PrettyFormatter with two-space indent
RECURSIVE Pretty(_, _), PrettyItems(_, _, _)
Pretty(v, d) ==
  CASE v.k = "obj" ->
         IF v.c = <<>> THEN <<LBrace, RBrace>>
         ELSE <<LBrace>> \o PrettyItems(v.c, TRUE, d + 1) \o <<Indent(d), RBrace>>
    [] v.k = "arr" ->
         IF v.c = <<>> THEN <<LBrack, RBrack>>
         ELSE <<LBrack>> \o PrettyItems(v.c, FALSE, d + 1) \o <<Indent(d), RBrack>>
    [] OTHER -> Scalar(v)
PrettyItems(es, keyed, d) ==
  IF es = <<>> THEN <<>>
  ELSE <<Indent(d)>>
       \o (IF keyed THEN <<TStr(Head(es).key), Colon, TWs(" ")>> ELSE <<>>)
       \o Pretty(Head(es).val, d)
       \o (IF Tail(es) = <<>> THEN <<>> ELSE <<Comma>>)
       \o PrettyItems(Tail(es), keyed, d)

to_string_pretty(v) == Pretty(v, 0)

(* ------------------- inputs: what the service answers ----------------- *)
RECURSIVE Join(_)
Join(parts) ==
  IF parts = <<>> THEN <<>>
  ELSE Head(parts) \o (IF Tail(parts) = <<>> THEN <<>> ELSE <<Comma>>) \o Join(Tail(parts))
KV(key, text) == <<TStr(key), Colon>> \o text
ObjText(members) == <<LBrace>> \o Join(members) \o <<RBrace>>
ArrText(items) == <<LBrack>> \o Join(items) \o <<RBrack>>
S(x) == <<TStr(x)>>

\* an HTTP exchange: send() succeeded or not, and the body received
Resp(body) == [sent |-> TRUE, body |-> body]
SendFailed == [sent |-> FALSE, body |-> <<>>]

SubmitResponses ==
  { SendFailed,
    Resp(<<>>),
    Resp(<<LBrace, TStr("id")>>),
    Resp(ObjText(<<KV("id", S("J1"))>>)),
    Resp(<<TWs(" "), LBrace, TWs("\n"), TStr("id"), TWs(" "), Colon, TStr("T1"),
           Comma, TStr("status"), Colon, TStr("queued"), RBrace, TWs("\n")>>),
    Resp(ObjText(<<KV("id", <<TNum("7")>>)>>)),
    Resp(ObjText(<<KV("id", <<TLit("null")>>)>>)),
    Resp(ObjText(<<KV("status", S("queued"))>>)),
    Resp(ArrText(<<S("J1")>>)),
    Resp(S("J1")) }

PollResponses ==
  { SendFailed,
    Resp(<<>>),
    Resp(<<LBrace, TStr("status"), Colon, TStr("completed")>>),
    Resp(ObjText(<<KV("status", S("processing"))>>)),
    Resp(<<LBrace, TWs(" "), TStr("status"), Colon, TWs(" "), TStr("queued"),
           Comma, TStr("id"), Colon, TStr("J1"), RBrace>>),
    Resp(ObjText(<<KV("status", S("completed")), KV("text", S("hello"))>>)),
    Resp(ObjText(<<KV("text", ArrText(<<S("a"), ObjText(<<KV("code", <<TNum("1")>>)>>),
                                        ArrText(<<>>), ObjText(<<>>)>>)),
                   KV("status", S("completed")), KV("id", <<TLit("true")>>)>>)),
    Resp(ObjText(<<KV("status", S("error")), KV("error", S("bad audio"))>>)),
    Resp(ObjText(<<KV("status", S("error")),
                   KV("error", ObjText(<<KV("code", <<TNum("5")>>)>>))>>)),
    Resp(ObjText(<<KV("status", S("error"))>>)),
    Resp(ObjText(<<KV("text", S("hello"))>>)),
    Resp(ObjText(<<KV("status", <<TNum("5")>>)>>)),
    Resp(ObjText(<<KV("status", <<TLit("null")>>)>>)),
    Resp(ArrText(<<S("completed")>>)),
    Resp(S("completed")) }

QA(q, a) == ObjText(<<KV("question", S(q)), KV("answer", S(a))>>)
QuestionResponses ==
  { SendFailed,
    Resp(<<>>),
    Resp(ObjText(<<KV("response", ArrText(<<>>))>>)),
    Resp(ObjText(<<KV("response", ArrText(<<QA("Q1", "A1")>>))>>)),
    Resp(ObjText(<<KV("response", ArrText(<<QA("Q1", "A1"), QA("Q2", "A2")>>))>>)),
    Resp(ObjText(<<KV("response", ArrText(<<QA("Q2", "A2"), QA("Q1", "A1")>>))>>)),
    Resp(ObjText(<<KV("response", ArrText(<<QA("Q1", "A1"), QA("Q1", "A1")>>))>>)),
    Resp(ObjText(<<KV("response",
           ArrText(<<ObjText(<<KV("text", S("x")), KV("question", S("Q1")),
                               KV("answer", S("A1"))>>),
                     ArrText(<<S("Q2"), S("A2")>>)>>))>>)),
    Resp(ObjText(<<KV("response",
           ArrText(<<QA("Q1", "A1"), ObjText(<<KV("question", S("Q2"))>>)>>))>>)),
    Resp(ObjText(<<KV("response",
           ArrText(<<QA("Q1", "A1"),
                     ObjText(<<KV("question", S("Q2")), KV("answer", <<TLit("null")>>)>>)>>))>>)),
    Resp(ObjText(<<KV("response", ArrText(<<QA("Q1", "A1"), ArrText(<<S("Q2")>>)>>))>>)),
    Resp(ObjText(<<KV("response", S("oops"))>>)),
    Resp(ObjText(<<KV("response", QA("Q1", "A1"))>>)),
    Resp(ObjText(<<KV("error", S("no such transcript"))>>)),
    Resp(ArrText(<<QA("Q1", "A1")>>)) }

(* -------------------- inputs: command line and disk ------------------- *)
AudioUrls == {NoneS, SomeS("audio.mp3")}
TranscriptIds == {NoneS, SomeS("T1"), SomeS("T2")}
JobIds == {"T1", "T2", "J1"}

\* format!("{}.json", transcription_id) and format!("{transcript_url}/{id}")
FileName(id) == <<id, ".json">>
Endpoint(url, id) == <<url, "/", id>>
FileNames == {FileName(id) : id \in JobIds}

Absent == [exists |-> FALSE, content |-> <<>>]
File(text) == [exists |-> TRUE, content |-> text]
StaleText == ObjText(<<KV("status", S("completed")), KV("text", S("old"))>>)

\* what the operating system does with one call of write_to_file:
\* current_dir() fails; File::create fails; write_all fails after `cut`
\* tokens; everything succeeds
WriteOutcomes(pretty) ==
  {[kind |-> k, cut |-> 0] : k \in {"ok", "cwd_err", "create_err"}}
    \cup {[kind |-> "write_err", cut |-> n] : n \in 0..(Len(pretty) - 1)}

(* ------------------------------- results ------------------------------ *)
Running == [st |-> "running", msg |-> <<>>]
Ok == [st |-> "ok", msg |-> <<>>]
Err(msg) == [st |-> "err", msg |-> msg]

\* one I/O operation: what, on what, for how long, and whether it succeeded
Event(op, target, secs, ok) == [op |-> op, target |-> target, secs |-> secs, ok |-> ok]
Line(tag, text) == [tag |-> tag, text |-> text]

VARIABLES
  pc,               \* position in run / question_answer::run
  args,             \* TranscriberArgs: audio_url, transcript_id
  t_id,             \* run: let mut t_id
  polling_endpoint, \* wait_for_transcription: let polling_endpoint
  transcript_data,  \* wait_for_transcription: last parsed poll body
  files,            \* the current working directory
  stdout, stderr,   \* lines printed
  result,           \* what run returned
  events,           \* history: every HTTP call, sleep and file write, in order
  posted,           \* history: responses to the POSTs
  polled,           \* history: responses to the GETs
  cmd,              \* AssemblyCLI: the subcommand of this invocation
  exited,           \* main has returned
  exit_code,        \* the exit status of the process, once exited
  runs,             \* history: number of invocations so far
  files0            \* history: the directory when this invocation started

vars == <<pc, args, t_id, polling_endpoint, transcript_data, files, stdout,
          stderr, result, events, posted, polled, cmd, exited, exit_code,
          runs, files0>>
\* what no step of run or ask changes
proc == <<cmd, exited, exit_code, runs, files0>>

(* ------------------------- Transcriber::transcribe -------------------- *)
\* mutant: the id is looked up under another key
IdOf_wrong_key(parsed_json) ==
  LET id == get(parsed_json, "transcript_id")
      str == IF id.some THEN as_str(id.v) ELSE NoneS
  IN IF str.some THEN [res |-> Ok, id |-> str.v]
     ELSE [res |-> Err(Msg("'id' key not found in response body")), id |-> ""]

\* mutant: parsed_json["id"].as_str().unwrap()
IdOf_unwrap(parsed_json) ==
  LET id == get(parsed_json, "id")
      str == IF id.some THEN as_str(id.v) ELSE NoneS
  IN IF str.some THEN [res |-> Ok, id |-> str.v]
     ELSE [res |-> [st |-> "panic", msg |-> Msg("called Option::unwrap() on a None value")],
           id |-> ""]

\* lines 89-93: parsed_json.get("id").and_then(as_str).map(String::from).ok_or_else
IdOf(parsed_json) ==
  LET id == get(parsed_json, "id")
      str == IF id.some THEN as_str(id.v) ELSE NoneS
  IN IF str.some THEN [res |-> Ok, id |-> str.v]
     ELSE [res |-> Err(Msg("'id' key not found in response body")), id |-> ""]

\* what transcribe returns for one response of the service
TranscribeReturn(resp) ==
  IF ~resp.sent
  THEN [res |-> Err(Msg("err posting to transcript endpoint")), id |-> "", bad_body |-> FALSE]
  ELSE LET p == FromText(resp.body)
       IN IF ~p.ok
          THEN [res |-> Err(Msg("json error")), id |-> "", bad_body |-> TRUE]
          ELSE [res |-> IdOf(p.val).res, id |-> IdOf(p.val).id, bad_body |-> FALSE]

(* ------------------------------ write_to_file ------------------------- *)
\* mutant: the file is opened with create_new, an existing file is an error
write_to_file_create_new(fs, transcription_id, content, w) ==
  LET pretty_json == to_string_pretty(content)
      file_name == FileName(transcription_id)
  IN CASE w.kind = "cwd_err" ->
            [res |-> Err(Msg("io error: current_dir")), fs |-> fs, called |-> FALSE,
             name |-> file_name]
       [] w.kind = "create_err" ->
            [res |-> Err(Msg("io error: create")), fs |-> fs, called |-> TRUE,
             name |-> file_name]
       [] fs[file_name].exists ->
            [res |-> Err(Msg("io error: file exists")), fs |-> fs, called |-> TRUE,
             name |-> file_name]
       [] w.kind = "write_err" ->
            [res |-> Err(Msg("io error: write")),
             fs |-> [fs EXCEPT ![file_name] = File(SubSeq(pretty_json, 1, w.cut))],
             called |-> TRUE, name |-> file_name]
       [] OTHER ->
            [res |-> Ok, fs |-> [fs EXCEPT ![file_name] = File(pretty_json)],
             called |-> TRUE, name |-> file_name]

\* mutant: the file name does not use the identifier
write_to_file_fixed_name(fs, transcription_id, content, w) ==
  LET pretty_json == to_string_pretty(content)
      file_name == FileName("transcript")
  IN CASE w.kind = "cwd_err" ->
            [res |-> Err(Msg("io error: current_dir")), fs |-> fs, called |-> FALSE,
             name |-> file_name]
       [] w.kind = "create_err" ->
            [res |-> Err(Msg("io error: create")), fs |-> fs, called |-> TRUE,
             name |-> file_name]
       [] w.kind = "write_err" ->
            [res |-> Err(Msg("io error: write")), fs |-> fs,
             called |-> TRUE, name |-> file_name]
       [] OTHER ->
            [res |-> Ok, fs |-> fs, called |-> TRUE, name |-> file_name]

\* mutant: the results of current_dir and fs::write are dropped
write_to_file_ignore_err(fs, transcription_id, content, w) ==
  LET pretty_json == to_string_pretty(content)
      file_name == FileName(transcription_id)
  IN CASE w.kind = "cwd_err" ->
            [res |-> Ok, fs |-> fs, called |-> FALSE, name |-> file_name]
       [] w.kind = "create_err" ->
            [res |-> Ok, fs |-> fs, called |-> TRUE, name |-> file_name]
       [] w.kind = "write_err" ->
            [res |-> Ok,
             fs |-> [fs EXCEPT ![file_name] = File(SubSeq(pretty_json, 1, w.cut))],
             called |-> TRUE, name |-> file_name]
       [] OTHER ->
            [res |-> Ok, fs |-> [fs EXCEPT ![file_name] = File(pretty_json)],
             called |-> TRUE, name |-> file_name]

\* mutant: only the "text" field of the payload is serialized
write_to_file_text_only(fs, transcription_id, content, w) ==
  LET pretty_json == to_string_pretty(get(content, "text").v)
      file_name == FileName(transcription_id)
  IN CASE w.kind = "cwd_err" ->
            [res |-> Err(Msg("io error: current_dir")), fs |-> fs, called |-> FALSE,
             name |-> file_name]
       [] w.kind = "create_err" ->
            [res |-> Err(Msg("io error: create")), fs |-> fs, called |-> TRUE,
             name |-> file_name]
       [] w.kind = "write_err" ->
            [res |-> Err(Msg("io error: write")),
             fs |-> [fs EXCEPT ![file_name] = File(SubSeq(pretty_json, 1, w.cut))],
             called |-> TRUE, name |-> file_name]
       [] OTHER ->
            [res |-> Ok, fs |-> [fs EXCEPT ![file_name] = File(pretty_json)],
             called |-> TRUE, name |-> file_name]

write_to_file(fs, transcription_id, content, w) ==
  LET pretty_json == to_string_pretty(content)
      file_name == FileName(transcription_id)
  IN CASE w.kind = "cwd_err" ->
            [res |-> Err(Msg("io error: current_dir")), fs |-> fs, called |-> FALSE,
             name |-> file_name]
       [] w.kind = "create_err" ->
            [res |-> Err(Msg("io error: create")), fs |-> fs, called |-> TRUE,
             name |-> file_name]
       [] w.kind = "write_err" ->
            [res |-> Err(Msg("io error: write")),
             fs |-> [fs EXCEPT ![file_name] = File(SubSeq(pretty_json, 1, w.cut))],
             called |-> TRUE, name |-> file_name]
       [] OTHER ->
            [res |-> Ok, fs |-> [fs EXCEPT ![file_name] = File(pretty_json)],
             called |-> TRUE, name |-> file_name]

(* ------------------ Transcriber::wait_for_transcription --------------- *)
Decision(act, data, msg) == [act |-> act, data |-> data, msg |-> msg]

\* mutant: the success arm matches "complete"
MatchStatus_complete(data, status) ==
  LET error == get(data, "error")
  IN IF status = "complete" THEN Decision("write", SomeV(data), <<>>)
     ELSE IF status = "error"
     THEN Decision("fail", SomeV(data),
                   IF error.some THEN Compact(error.v) ELSE Msg("error not present"))
     ELSE Decision("sleep", SomeV(data), <<>>)

\* mutant: no arm for "error", the loop polls again
MatchStatus_retry_error(data, status) ==
  IF status = "completed" THEN Decision("write", SomeV(data), <<>>)
  ELSE Decision("sleep", SomeV(data), <<>>)

\* mutant: only "processing" keeps the loop going
MatchStatus_processing_only(data, status) ==
  LET error == get(data, "error")
  IN IF status = "completed" THEN Decision("write", SomeV(data), <<>>)
     ELSE IF status = "error"
     THEN Decision("fail", SomeV(data),
                   IF error.some THEN Compact(error.v) ELSE Msg("error not present"))
     ELSE IF status = "processing" THEN Decision("sleep", SomeV(data), <<>>)
     ELSE Decision("fail", SomeV(data), Msg("unknown status"))

\* mutant: "error" ends the loop only when there is an error field
MatchStatus_error_needs_field(data, status) ==
  LET error == get(data, "error")
  IN IF status = "completed" THEN Decision("write", SomeV(data), <<>>)
     ELSE IF status = "error" /\ error.some
     THEN Decision("fail", SomeV(data), Compact(error.v))
     ELSE Decision("sleep", SomeV(data), <<>>)

\* lines 118-127: the match on the status string
MatchStatus(data, status) ==
  LET error == get(data, "error")
  IN IF status = "completed" THEN Decision("write", SomeV(data), <<>>)
     ELSE IF status = "error"
     THEN Decision("fail", SomeV(data),
                   IF error.some THEN Compact(error.v) ELSE Msg("error not present"))
     ELSE Decision("sleep", SomeV(data), <<>>)

\* mutant: get("status").and_then(as_str).unwrap_or_default()
StatusOf_default(data) ==
  LET status == get(data, "status")
      str == IF status.some THEN as_str(status.v) ELSE NoneS
  IN [res |-> Ok, v |-> str.v]

\* lines 115-118: get("status").context(..)? and as_str().context(..)?
StatusOf(data) ==
  LET status == get(data, "status")
      str == IF status.some THEN as_str(status.v) ELSE NoneS
  IN IF ~status.some THEN [res |-> Err(Msg("status not present")), v |-> ""]
     ELSE IF ~str.some THEN [res |-> Err(Msg("status as str")), v |-> ""]
     ELSE [res |-> Ok, v |-> str.v]

\* one turn of the loop, lines 104-127: what to do with one response
PollDecision(resp) ==
  IF ~resp.sent
  THEN Decision("fail", NoneV, Msg("err get: transcript response"))
  ELSE LET p == FromText(resp.body)
           status == StatusOf(p.val)
       IN IF ~p.ok
          THEN Decision("fail", NoneV, Msg("could not read body of poll request"))
          ELSE IF status.res.st # "ok"
          THEN Decision("fail", SomeV(p.val), status.res.msg)
          ELSE MatchStatus(p.val, status.v)

(* --------------------------- QuestionAnswer::ask ---------------------- *)
\* Deserialize for Answer { question: String, answer: String }: from a map
\* (other keys ignored) or from a sequence of exactly the two fields
AnswerOf(v) ==
  LET q == IF v.k = "obj" THEN get(v, "question")
           ELSE IF v.k = "arr" /\ Len(v.c) = 2 THEN SomeV(v.c[1].val) ELSE NoneV
      a == IF v.k = "obj" THEN get(v, "answer")
           ELSE IF v.k = "arr" /\ Len(v.c) = 2 THEN SomeV(v.c[2].val) ELSE NoneV
      qs == IF q.some THEN as_str(q.v) ELSE NoneS
      as == IF a.some THEN as_str(a.v) ELSE NoneS
  IN [ok |-> qs.some /\ as.some, question |-> qs.v, answer |-> as.v]

\* mutant: elements that are not an Answer are skipped
IsAnswerEntry(e) == AnswerOf(e.val).ok
FromValueAnswers_skip_bad(r) ==
  IF r.k = "arr"
  THEN LET good == SelectSeq(r.c, IsAnswerEntry)
       IN [ok |-> TRUE, answers |-> [i \in 1..Len(good) |-> AnswerOf(good[i].val)]]
  ELSE [ok |-> FALSE, answers |-> <<>>]

\* serde_json::from_value::<Vec<Answer>>
FromValueAnswers(r) ==
  IF r.k = "arr" /\ \A i \in 1..Len(r.c) : AnswerOf(r.c[i].val).ok
  THEN [ok |-> TRUE, answers |-> [i \in 1..Len(r.c) |-> AnswerOf(r.c[i].val)]]
  ELSE [ok |-> FALSE, answers |-> <<>>]

\* mutant: the answers are taken off the end of the vector
RECURSIVE PrintAnswers_reversed(_)
PrintAnswers_reversed(answers) ==
  IF answers = <<>> THEN <<>>
  ELSE PrintAnswers_reversed(Tail(answers))
       \o <<Line("Question: ", Head(answers).question),
            Line("Answer: ", Head(answers).answer)>>

\* lines 88-91: for a in answers { println!(..question); println!(..answer) }
RECURSIVE PrintAnswers(_)
PrintAnswers(answers) ==
  IF answers = <<>> THEN <<>>
  ELSE <<Line("Question: ", Head(answers).question),
         Line("Answer: ", Head(answers).answer)>> \o PrintAnswers(Tail(answers))

\* mutant: a missing "response" is read as no answers
AnswersOf_default(parsed_json) ==
  LET r == get(parsed_json, "response")
      answers == FromValueAnswers(r.v)
  IN IF ~r.some
     THEN [res |-> Ok, answers |-> <<>>]
     ELSE IF ~answers.ok
     THEN [res |-> Err(Msg("Failed to parse 'response' into slice of Responses")),
           answers |-> <<>>]
     ELSE [res |-> Ok, answers |-> answers.answers]

\* lines 74-86: parsed_json.get("response").ok_or_else(..).and_then(from_value)
AnswersOf(parsed_json) ==
  LET r == get(parsed_json, "response")
      answers == FromValueAnswers(r.v)
  IN IF ~r.some
     THEN [res |-> Err(Msg("Error: 'id' key not found in response body")),
           answers |-> <<>>]
     ELSE IF ~answers.ok
     THEN [res |-> Err(Msg("Failed to parse 'response' into slice of Responses")),
           answers |-> <<>>]
     ELSE [res |-> Ok, answers |-> answers.answers]

\* what ask returns and prints for one response of the service
AskReturn(resp) ==
  IF ~resp.sent
  THEN [res |-> Err(Msg("reqwest error")), out |-> <<>>, bad_body |-> FALSE]
  ELSE LET p == FromText(resp.body)
           answers == AnswersOf(p.val)
       IN IF ~p.ok
          THEN [res |-> Err(Msg("json error")), out |-> <<>>, bad_body |-> TRUE]
          ELSE IF answers.res.st # "ok"
          THEN [res |-> answers.res, out |-> <<>>, bad_body |-> FALSE]
          ELSE [res |-> Ok, out |-> PrintAnswers(answers.answers), bad_body |-> FALSE]

(* ---------------------------------- run ------------------------------- *)
Init ==
  /\ cmd \in {"transcribe", "question"}
  /\ pc = IF cmd = "transcribe" THEN "run" ELSE "question"
  /\ args \in [audio_url : AudioUrls, transcript_id : TranscriptIds]
  /\ files \in {[n \in FileNames |-> Absent], [n \in FileNames |-> File(StaleText)]}
  /\ pc = "question" =>
       /\ args = [audio_url |-> NoneS, transcript_id |-> NoneS]
       /\ files = [n \in FileNames |-> Absent]
  /\ t_id = NoneS
  /\ polling_endpoint = <<>>
  /\ transcript_data = NoneV
  /\ stdout = <<>>
  /\ stderr = <<>>
  /\ result = Running
  /\ events = <<>>
  /\ posted = <<>>
  /\ polled = <<>>
  /\ exited = FALSE
  /\ exit_code = 0
  /\ runs = 1
  /\ files0 = files

\* run, lines 152-154: take the id of the command line, submit if there is a url
Run ==
  /\ UNCHANGED proc
  /\ pc = "run"
  /\ t_id' = args.transcript_id
  /\ pc' = IF args.audio_url.some THEN "transcribe" ELSE "wait"
  /\ UNCHANGED <<args, polling_endpoint, transcript_data, files, stdout, stderr,
                 result, events, posted, polled>>

\* mutant: the error of transcribe is dropped (.ok()) and run goes on
Transcribe_continue ==
  /\ UNCHANGED proc
  /\ pc = "transcribe"
  /\ \E resp \in SubmitResponses :
       LET r == TranscribeReturn(resp)
       IN /\ events' = Append(events, Event("POST", <<ApiUrl>>, 0, resp.sent))
          /\ posted' = Append(posted, resp)
          /\ stderr' = IF r.bad_body
                       THEN Append(stderr, Line("ERROR: could not read body of response: ", ""))
                       ELSE stderr
          /\ t_id' = IF r.res.st = "ok" THEN SomeS(r.id) ELSE t_id
          /\ pc' = "wait"
          /\ UNCHANGED result
  /\ UNCHANGED <<args, polling_endpoint, transcript_data, files, stdout, polled>>

\* run, line 155: t_id = transcriber.transcribe(audio_url, &transcript_url)?.into()
Transcribe ==
  /\ UNCHANGED proc
  /\ pc = "transcribe"
  /\ \E resp \in SubmitResponses :
       LET r == TranscribeReturn(resp)
       IN /\ events' = Append(events, Event("POST", <<ApiUrl>>, 0, resp.sent))
          /\ posted' = Append(posted, resp)
          /\ stderr' = IF r.bad_body
                       THEN Append(stderr, Line("ERROR: could not read body of response: ", ""))
                       ELSE stderr
          /\ IF r.res.st = "ok"
             THEN /\ t_id' = SomeS(r.id)
                  /\ pc' = "wait"
                  /\ UNCHANGED result
             ELSE /\ result' = r.res
                  /\ pc' = "done"
                  /\ UNCHANGED t_id
  /\ UNCHANGED <<args, polling_endpoint, transcript_data, files, stdout, polled>>

\* mutant: t_id.unwrap_or_default(), the poller is always started
Wait_poll_always ==
  /\ UNCHANGED proc
  /\ pc = "wait"
  /\ stdout' = stdout \o <<Line("Using transcript ID: ", t_id.v),
                            Line("waiting for transcription results...", "")>>
  /\ polling_endpoint' = Endpoint(ApiUrl, t_id.v)
  /\ pc' = "poll"
  /\ UNCHANGED <<args, t_id, transcript_data, files, stderr, events, posted, polled,
                 result>>

\* run, lines 157-162, and wait_for_transcription, lines 98-102
Wait ==
  /\ UNCHANGED proc
  /\ pc = "wait"
  /\ IF t_id.some
     THEN /\ stdout' = stdout \o <<Line("Using transcript ID: ", t_id.v),
                                   Line("waiting for transcription results...", "")>>
          /\ polling_endpoint' = Endpoint(ApiUrl, t_id.v)
          /\ pc' = "poll"
          /\ UNCHANGED result
     ELSE /\ result' = Ok
          /\ pc' = "done"
          /\ UNCHANGED <<stdout, polling_endpoint>>
  /\ UNCHANGED <<args, t_id, transcript_data, files, stderr, events, posted, polled>>

\* mutant: the loop gives up after the second response that is not terminal
PollIteration_max_attempts ==
  /\ UNCHANGED proc
  /\ pc = "poll"
  /\ Len(polled) < MaxPolls
  /\ \E resp \in PollResponses :
       LET d == PollDecision(resp)
           get_ev == Event("GET", polling_endpoint, 0, resp.sent)
       IN /\ polled' = Append(polled, resp)
          /\ transcript_data' = d.data
          /\ CASE d.act = "write" ->
                    \E w \in WriteOutcomes(to_string_pretty(d.data.v)) :
                      LET wr == write_to_file(files, t_id.v, d.data.v, w)
                      IN /\ files' = wr.fs
                         /\ events' = events \o <<get_ev>> \o
                              (IF wr.called
                               THEN <<Event("WRITE", wr.name, 0, wr.res.st = "ok")>>
                               ELSE <<>>)
                         /\ result' = wr.res
                         /\ pc' = "done"
               [] d.act = "fail" ->
                    /\ events' = Append(events, get_ev)
                    /\ result' = Err(d.msg)
                    /\ pc' = "done"
                    /\ UNCHANGED files
               [] OTHER ->
                    IF Len(polled) + 1 >= 2
                    THEN /\ events' = Append(events, get_ev)
                         /\ result' = Err(Msg("timed out"))
                         /\ pc' = "done"
                         /\ UNCHANGED files
                    ELSE /\ events' = events \o <<get_ev, Event("SLEEP", <<>>, PollInterval, TRUE)>>
                         /\ UNCHANGED <<files, result, pc>>
  /\ UNCHANGED <<args, t_id, polling_endpoint, stdout, stderr, posted>>

\* wait_for_transcription, lines 103-128: one turn of the loop
PollIteration ==
  /\ UNCHANGED proc
  /\ pc = "poll"
  /\ Len(polled) < MaxPolls
  /\ \E resp \in PollResponses :
       LET d == PollDecision(resp)
           get_ev == Event("GET", polling_endpoint, 0, resp.sent)
       IN /\ polled' = Append(polled, resp)
          /\ transcript_data' = d.data
          /\ CASE d.act = "write" ->
                    \E w \in WriteOutcomes(to_string_pretty(d.data.v)) :
                      LET wr == write_to_file(files, t_id.v, d.data.v, w)
                      IN /\ files' = wr.fs
                         /\ events' = events \o <<get_ev>> \o
                              (IF wr.called
                               THEN <<Event("WRITE", wr.name, 0, wr.res.st = "ok")>>
                               ELSE <<>>)
                         /\ result' = wr.res
                         /\ pc' = "done"
               [] d.act = "fail" ->
                    /\ events' = Append(events, get_ev)
                    /\ result' = Err(d.msg)
                    /\ pc' = "done"
                    /\ UNCHANGED files
               [] OTHER ->
                    /\ events' = events \o <<get_ev, Event("SLEEP", <<>>, PollInterval, TRUE)>>
                    /\ UNCHANGED <<files, result, pc>>
  /\ UNCHANGED <<args, t_id, polling_endpoint, stdout, stderr, posted>>

(* ------------------------- question_answer::run ----------------------- *)
\* what read_questions_from_file finds: no file, no JSON array of Question,
\* or the questions
QuestionFiles == {"open_err", "json_err", "ok"}

\* question_answer::run, line 101: read_questions_from_file(..)?
ReadQuestions ==
  /\ UNCHANGED proc
  /\ pc = "question"
  /\ \E f \in QuestionFiles :
       CASE f = "open_err" ->
              /\ result' = Err(Msg("failed to open file"))
              /\ pc' = "done"
         [] f = "json_err" ->
              /\ result' = Err(Msg("failed to parse JSON"))
              /\ pc' = "done"
         [] OTHER ->
              /\ pc' = "ask"
              /\ UNCHANGED result
  /\ UNCHANGED <<args, t_id, polling_endpoint, transcript_data, files, stdout,
                 stderr, events, posted, polled>>

\* question_answer::run, line 102: qa.ask(args.transcript_id, questions)
Ask ==
  /\ UNCHANGED proc
  /\ pc = "ask"
  /\ \E resp \in QuestionResponses :
       LET r == AskReturn(resp)
       IN /\ events' = Append(events, Event("POST", <<QuestionUrl>>, 0, resp.sent))
          /\ posted' = Append(posted, resp)
          /\ stderr' = IF r.bad_body
                       THEN Append(stderr, Line("Error: could not read body of response: ", ""))
                       ELSE stderr
          /\ stdout' = stdout \o r.out
          /\ result' = r.res
          /\ pc' = "done"
  /\ UNCHANGED <<args, t_id, polling_endpoint, transcript_data, files, polled>>

(* ---------------------------------- main ------------------------------ *)
\* status of a process whose main returned Err
ExitFailure == 1

\* mutant: main reports the error itself and returns Ok(())
Termination_reported(res) ==
  IF res.st = "ok" THEN [code |-> 0, diag |-> <<>>]
  ELSE [code |-> 0, diag |-> <<Line("Error: ", "")>>]

\* fn main() -> Result<()>: Ok(()) exits 0; Err(e) prints "Error: {e:?}" to
\* standard error and exits 1
Termination(res) ==
  IF res.st = "ok" THEN [code |-> 0, diag |-> <<>>]
  ELSE [code |-> ExitFailure, diag |-> <<Line("Error: ", "")>>]

\* main of the transcription program returns what the flow returned
Exit ==
  /\ cmd = "transcribe"
  /\ pc = "done"
  /\ ~exited
  /\ exited' = TRUE
  /\ exit_code' = Termination(result).code
  /\ stderr' = stderr \o Termination(result).diag
  /\ UNCHANGED <<pc, args, t_id, polling_endpoint, transcript_data, files, stdout,
                 result, events, posted, polled, cmd, runs, files0>>

\* the question subcommand ends the same way
ExitQuestion ==
  /\ cmd = "question"
  /\ pc = "done"
  /\ ~exited
  /\ exited' = TRUE
  /\ exit_code' = IF result.st = "ok" THEN 0 ELSE ExitFailure
  /\ stderr' = IF result.st = "ok" THEN stderr ELSE Append(stderr, Line("Error: ", ""))
  /\ UNCHANGED <<pc, args, t_id, polling_endpoint, transcript_data, files, stdout,
                 result, events, posted, polled, cmd, runs, files0>>

Next ==
  \/ Run \/ Transcribe \/ Wait \/ PollIteration \/ Exit
  \/ ReadQuestions \/ Ask \/ ExitQuestion

Spec == Init /\ [][Next]_vars

\* a fresh invocation for the job of an invocation that ended in success:
\* the same identifier on the command line, the directory as it was left
Rerun ==
  /\ cmd = "transcribe"
  /\ exited
  /\ exit_code = 0
  /\ polled # <<>>
  /\ runs < MaxRuns
  /\ args' = [audio_url |-> NoneS, transcript_id |-> t_id]
  /\ pc' = "run"
  /\ t_id' = NoneS
  /\ polling_endpoint' = <<>>
  /\ transcript_data' = NoneV
  /\ stdout' = <<>>
  /\ stderr' = <<>>
  /\ result' = Running
  /\ events' = <<>>
  /\ posted' = <<>>
  /\ polled' = <<>>
  /\ exited' = FALSE
  /\ exit_code' = 0
  /\ runs' = runs + 1
  /\ files0' = files
  /\ UNCHANGED <<cmd, files>>

NextResume == Next \/ Rerun
SpecResume == Init /\ [][NextResume]_vars

\* the process is one thread of blocking calls, each of which returns: a step
\* that can be taken is taken
FairSpec == Spec /\ WF_vars(Next)

(* ===================== vocabulary of the properties =================== *)
ValidJson(resp) == resp.sent /\ FromText(resp.body).ok
Body(resp) == FromText(resp.body).val
StatusField(resp) == get(Body(resp), "status")
IsCompleted(resp) == ValidJson(resp) /\ StatusField(resp) = SomeV(JStr("completed"))
IsError(resp) == ValidJson(resp) /\ StatusField(resp) = SomeV(JStr("error"))
\* a status field holding anything but "completed" or "error"
HasOtherStatus(resp) ==
  /\ ValidJson(resp)
  /\ StatusField(resp).some
  /\ StatusField(resp).v \notin {JStr("completed"), JStr("error")}
\* a status field holding a string other than "completed" or "error"
IsNonTerminal(resp) == HasOtherStatus(resp) /\ StatusField(resp).v.k = "str"
\* the call failed, the body is not JSON, or there is no status field
IsFatal(resp) == ~ValidJson(resp) \/ ~StatusField(resp).some

NumOps(op) == Cardinality({i \in DOMAIN events : events[i].op = op})
IsPollEvent(e) == e.op # "POST"
PollEvents == SelectSeq(events, IsPollEvent)
LastEvent == events[Len(events)]
LastPolled == polled[Len(polled)]
GetEvent(ok) == Event("GET", Endpoint(ApiUrl, t_id.v), 0, ok)
SleepEvent == Event("SLEEP", <<>>, PollInterval, TRUE)
StorageErrors ==
  {Err(Msg("io error: current_dir")), Err(Msg("io error: create")),
   Err(Msg("io error: write"))}
InTranscribeFlow == cmd = "transcribe"
InQuestionFlow == cmd = "question" /\ posted # <<>>

(* ================================ C1 ================================== *)
\* the responses so far are n non-terminal ones followed by one "completed"
ScriptedRun ==
  /\ polled # <<>>
  /\ IsCompleted(LastPolled)
  /\ \A i \in 1..(Len(polled) - 1) : IsNonTerminal(polled[i])

\* n+1 GETs, one sleep between consecutive GETs, none after the last, the
\* payload of the last response handed to write_to_file, and the run over
ScriptedShape ==
  LET n == Len(polled) - 1
  IN /\ pc = "done"
     /\ NumOps("GET") = n + 1
     /\ NumOps("SLEEP") = n
     /\ Len(PollEvents) \in {2 * n + 1, 2 * n + 2}
     /\ \A i \in 1..n : /\ PollEvents[2 * i - 1] = GetEvent(TRUE)
                        /\ PollEvents[2 * i] = SleepEvent
     /\ PollEvents[2 * n + 1] = GetEvent(TRUE)
     /\ Len(PollEvents) = 2 * n + 2 => PollEvents[2 * n + 2].op = "WRITE"
     /\ transcript_data = SomeV(Body(LastPolled))

\* C1: after n non-terminal responses and one "completed" response the poller
\* has issued n+1 GETs with one sleep between consecutive GETs and none after
\* the last, handed the last payload to the result sink, and returned success.
C1_Original == ScriptedRun => (ScriptedShape /\ result = Ok)

\* C1 (amended): as above, but the poller returns what the result sink
\* returns: success exactly when the file write succeeded (the file then
\* holds the last payload), a storage failure otherwise.
C1_PollUntilCompleted ==
  ScriptedRun =>
    /\ ScriptedShape
    /\ result = Ok <=> (LastEvent.op = "WRITE" /\ LastEvent.ok)
    /\ result # Ok => result \in StorageErrors
    /\ result = Ok => FromText(files[FileName(t_id.v)].content) = POk(Body(LastPolled), <<>>)

C1_Witness ==
  /\ ScriptedRun
  /\ Len(polled) = 3
  /\ NumOps("GET") = 3
  /\ NumOps("SLEEP") = 2
  /\ result = Ok

(* ================================ C2 ================================== *)
\* C2: a response with status "error" and an error field e ends the poller
\* at once: it returns a failure whose message is e, the GET of that response
\* is the last I/O of the run, no sleep follows it and no file is written.
C2_ErrorIsTerminal ==
  \A i \in DOMAIN polled :
    (IsError(polled[i]) /\ get(Body(polled[i]), "error").some) =>
      /\ i = Len(polled)
      /\ pc = "done"
      /\ result = Err(Compact(get(Body(polled[i]), "error").v))
      /\ LastEvent = GetEvent(TRUE)
      /\ NumOps("GET") = i
      /\ NumOps("SLEEP") = i - 1
      /\ NumOps("WRITE") = 0
      /\ files = files0

C2_Witness ==
  /\ Len(polled) = 1
  /\ IsError(polled[1])
  /\ result = Err(<<TStr("bad audio")>>)
  /\ NumOps("GET") = 1
  /\ NumOps("SLEEP") = 0

(* ================================ C3 ================================== *)
\* after the i-th response the poller is still pending: not returned, nothing
\* written, slept PollInterval seconds, and the next I/O (if any) is a GET
StaysPending(i) ==
  /\ NumOps("WRITE") = 0 \/ i < Len(polled)
  /\ Len(PollEvents) >= 2 * i
  /\ PollEvents[2 * i] = SleepEvent
  /\ i = Len(polled) => (pc = "poll" /\ result = Running /\ Len(PollEvents) = 2 * i)
  /\ i < Len(polled) => PollEvents[2 * i + 1].op = "GET"

\* C3: a response whose status field holds anything other than "completed"
\* or "error" leaves the poller pending: it sleeps 10 seconds, then GETs.
C3_Original ==
  \A i \in DOMAIN polled : HasOtherStatus(polled[i]) => StaysPending(i)

\* C3 (amended): a response whose status field holds a string other than
\* "completed" or "error" leaves the poller pending: it does not return,
\* writes no file, sleeps 10 seconds, and the next thing it does is a GET.
C3_NonTerminalStaysPending ==
  \A i \in DOMAIN polled : IsNonTerminal(polled[i]) => StaysPending(i)

C3_Witness ==
  /\ Len(polled) = 2
  /\ IsNonTerminal(polled[1])
  /\ IsNonTerminal(polled[2])
  /\ pc = "poll"
  /\ PollEvents[3].op = "GET"
  /\ PollEvents[4].secs = 10

(* ================================ C4 ================================== *)
HasStringId(resp) ==
  /\ ValidJson(resp)
  /\ get(Body(resp), "id").some
  /\ get(Body(resp), "id").v.k = "str"

\* C4: when the submission response is a JSON object with a string id,
\* transcribe returns exactly that string, and on its return one POST is the
\* only I/O done; no second POST is ever issued.
C4_SubmissionReturnsId ==
  (InTranscribeFlow /\ posted # <<>> /\ HasStringId(posted[1])) =>
    /\ t_id = SomeS(get(Body(posted[1]), "id").v.s)
    /\ events[1] = Event("POST", <<ApiUrl>>, 0, TRUE)
    /\ NumOps("POST") = 1
    /\ pc = "wait" => (events = <<Event("POST", <<ApiUrl>>, 0, TRUE)>> /\ result = Running)
    /\ pc = "wait" => files = files0

C4_Witness ==
  /\ pc = "wait"
  /\ posted # <<>>
  /\ HasStringId(posted[1])
  /\ args.transcript_id = SomeS("T2")
  /\ t_id = SomeS("T1")

(* ================================ C5 ================================== *)
\* C5: when the submission response is valid JSON without a usable id (no id
\* key, an id that is not a string, or not an object), transcribe returns the
\* "'id' key not found" error as a value; it does not panic, and the run ends
\* there with the POST as its only I/O.
C5_MissingIdIsError ==
  (InTranscribeFlow /\ posted # <<>> /\ ValidJson(posted[1]) /\ ~HasStringId(posted[1])) =>
    /\ result = Err(Msg("'id' key not found in response body"))
    /\ pc = "done"
    /\ events = <<Event("POST", <<ApiUrl>>, 0, TRUE)>>

C5_Witness ==
  /\ posted # <<>>
  /\ ValidJson(posted[1])
  /\ Body(posted[1]).k = "arr"
  /\ result.st = "err"
  /\ pc = "done"
(* ================================ C6 ================================== *)
OpsOf(op) == {events[i] : i \in {j \in DOMAIN events : events[j].op = op}}

\* C6: when a job identifier is given on the command line no POST is issued
\* and every GET and the output file use that identifier; when an audio URL
\* is given, exactly one POST has been issued before any polling.
C6_IdSuppliedSkipsSubmission ==
  InTranscribeFlow =>
    /\ args.transcript_id.some =>
         /\ NumOps("POST") = 0
         /\ \A e \in OpsOf("GET") : e.target = Endpoint(ApiUrl, args.transcript_id.v)
         /\ \A e \in OpsOf("WRITE") : e.target = FileName(args.transcript_id.v)
    /\ (args.audio_url.some /\ pc \in {"wait", "poll"}) =>
         (NumOps("POST") = 1 /\ events[1].op = "POST")
    /\ (args.audio_url.some /\ NumOps("GET") > 0) =>
         (NumOps("POST") = 1 /\ events[1].op = "POST")

(* ================================ C7 ================================== *)
InitialFile(name) == files[name] = files0[name]

C8_FatalPollErrors ==
  /\ \A i \in DOMAIN polled :
       IsFatal(polled[i]) =>
         /\ i = Len(polled)
         /\ pc = "done"
         /\ result.st = "err"
         /\ LastEvent.op = "GET"
         /\ NumOps("GET") = i
         /\ NumOps("SLEEP") = i - 1
         /\ NumOps("WRITE") = 0
         /\ \A name \in FileNames : InitialFile(name)
  /\ \A i \in 1..(Len(polled) - 1) : IsNonTerminal(polled[i])

C8_Witness ==
  /\ Len(polled) = 2
  /\ ValidJson(LastPolled)
  /\ ~StatusField(LastPolled).some
  /\ result = Err(Msg("status not present"))

(* ================================ C9 ================================== *)
\* C9: when the answer to the question POST is valid JSON without a
\* top-level "response" key, ask returns the missing-key error and nothing
\* has been printed to standard output.
C9_MissingResponseKey ==
  (InQuestionFlow /\ ValidJson(posted[1]) /\ ~get(Body(posted[1]), "response").some) =>
    /\ result = Err(Msg("Error: 'id' key not found in response body"))
    /\ stdout = <<>>
    /\ pc = "done"

C9_Witness ==
  /\ InQuestionFlow
  /\ ValidJson(posted[1])
  /\ get(Body(posted[1]), "error").some
  /\ result.st = "err"
  /\ stdout = <<>>

(* ================================ C10 ================================= *)
\* an object with a string "question" and a string "answer"
IsAnswerRecord(v) ==
  /\ v.k = "obj"
  /\ get(v, "question").some /\ get(v, "question").v.k = "str"
  /\ get(v, "answer").some /\ get(v, "answer").v.k = "str"
ResponseField(resp) == get(Body(resp), "response")
WellFormedAnswers(resp) ==
  /\ ValidJson(resp)
  /\ ResponseField(resp).some
  /\ ResponseField(resp).v.k = "arr"
  /\ \A i \in 1..Len(ResponseField(resp).v.c) :
       IsAnswerRecord(ResponseField(resp).v.c[i].val)

\* C10: when the "response" field is a sequence of k answer records, ask has
\* issued one POST and nothing else, printed 2k lines: for the i-th record
\* its question, then its answer, in the order of the sequence, and returned
\* success.
C10_AnswersPrintedInOrder ==
  (InQuestionFlow /\ WellFormedAnswers(posted[1])) =>
    LET recs == ResponseField(posted[1]).v.c
    IN /\ events = <<Event("POST", <<QuestionUrl>>, 0, TRUE)>>
       /\ result = Ok
       /\ Len(stdout) = 2 * Len(recs)
       /\ \A i \in 1..Len(recs) :
            /\ stdout[2 * i - 1] = Line("Question: ", get(recs[i].val, "question").v.s)
            /\ stdout[2 * i] = Line("Answer: ", get(recs[i].val, "answer").v.s)

C10_Witness ==
  /\ InQuestionFlow
  /\ WellFormedAnswers(posted[1])
  /\ stdout = <<Line("Question: ", "Q2"), Line("Answer: ", "A2"),
                Line("Question: ", "Q1"), Line("Answer: ", "A1")>>
  /\ result = Ok
(* ================================ C12 ================================= *)
\* C12: an invocation that has ended has exit status 0 exactly when the flow
\* returned Ok: every returned failure gives a non-zero status and a
\* diagnostic on standard error; a run that wrote the transcript, and a run
\* with nothing to do, give 0.
C12_ExitStatus ==
  exited =>
    /\ pc = "done"
    /\ result.st \in {"ok", "err"}
    /\ exit_code = 0 <=> result = Ok
    /\ result.st = "err" =>
         /\ exit_code # 0
         /\ stderr # <<>>
         /\ stderr[Len(stderr)] = Line("Error: ", "")
    /\ (events # <<>> /\ LastEvent.op = "WRITE" /\ LastEvent.ok) => exit_code = 0
    /\ (cmd = "transcribe" /\ ~args.audio_url.some /\ ~args.transcript_id.some) =>
         exit_code = 0

C12_Witness ==
  /\ exited
  /\ cmd = "transcribe"
  /\ result = Err(Msg("io error: write"))
  /\ exit_code = 1
(* ================================ C13 ================================= *)
\* the error transcribe returns for a response without a usable id
SubmissionError(resp) ==
  IF ~resp.sent THEN Err(Msg("err posting to transcript endpoint"))
  ELSE IF ~FromText(resp.body).ok THEN Err(Msg("json error"))
  ELSE Err(Msg("'id' key not found in response body"))

\* C13: when the submission fails (the POST fails, its body is not JSON, or
\* there is no usable id) the run ends with that failure: the one POST is the
\* only I/O of the run, no GET, no sleep, no file write, no second POST.
C13_FailedSubmissionEndsRun ==
  (InTranscribeFlow /\ posted # <<>> /\ ~HasStringId(posted[1])) =>
    /\ pc = "done"
    /\ result = SubmissionError(posted[1])
    /\ events = <<Event("POST", <<ApiUrl>>, 0, posted[1].sent)>>
    /\ Len(posted) = 1
    /\ polled = <<>>
    /\ files = files0

C13_Witness ==
  /\ InTranscribeFlow
  /\ args.transcript_id = SomeS("T1")
  /\ posted = <<SendFailed>>
  /\ pc = "done"
  /\ result.st = "err"
  /\ events = <<Event("POST", <<ApiUrl>>, 0, FALSE)>>

(* ================================ C14 ================================= *)
\* C14: a response with status "error" and no error field ends the poller at
\* once with the failure "error not present": that GET is the last I/O, no
\* sleep follows it, nothing is written, and the poller is not pending.
C14_ErrorWithoutField ==
  \A i \in DOMAIN polled :
    (IsError(polled[i]) /\ ~get(Body(polled[i]), "error").some) =>
      /\ i = Len(polled)
      /\ pc = "done"
      /\ result = Err(Msg("error not present"))
      /\ LastEvent = GetEvent(TRUE)
      /\ NumOps("GET") = i
      /\ NumOps("SLEEP") = i - 1
      /\ NumOps("WRITE") = 0
      /\ files = files0

C14_Witness ==
  /\ Len(polled) = 2
  /\ IsError(LastPolled)
  /\ ~get(Body(LastPolled), "error").some
  /\ result.st = "err"
  /\ pc = "done"

(* ================================ C15 ================================= *)
\* what deserializes into an Answer: a map with a string "question" and a
\* string "answer", or a sequence of exactly two strings
IsAnswerShape(v) ==
  \/ IsAnswerRecord(v)
  \/ (v.k = "arr" /\ Len(v.c) = 2 /\ v.c[1].val.k = "str" /\ v.c[2].val.k = "str")
BadAnswers(resp) ==
  /\ ValidJson(resp)
  /\ ResponseField(resp).some
  /\ \/ ResponseField(resp).v.k # "arr"
     \/ \E i \in 1..Len(ResponseField(resp).v.c) :
          ~IsAnswerShape(ResponseField(resp).v.c[i].val)

\* C15: when "response" is present but is not a sequence, or one of its
\* elements is not an Answer, ask returns the answer-parse failure and has
\* printed nothing, not even the well-formed elements before the bad one.
C15_NoPartialAnswers ==
  (InQuestionFlow /\ BadAnswers(posted[1])) =>
    /\ result = Err(Msg("Failed to parse 'response' into slice of Responses"))
    /\ stdout = <<>>
    /\ pc = "done"
    /\ events = <<Event("POST", <<QuestionUrl>>, 0, TRUE)>>

C15_Witness ==
  /\ InQuestionFlow
  /\ BadAnswers(posted[1])
  /\ ResponseField(posted[1]).v.k = "arr"
  /\ Len(ResponseField(posted[1]).v.c) = 2
  /\ IsAnswerRecord(ResponseField(posted[1]).v.c[1].val)
  /\ result.st = "err"
  /\ stdout = <<>>
(* ================================ C17 ================================= *)
\* C17: a run of the transcription flow is submit (optional), poll, write:
\* at most one POST, and it is the first I/O; at most one write, and it is
\* the last I/O, so every GET and sleep lies between them; each request has
\* been answered before the next I/O starts; all GETs and the write are for
\* one job identifier.
C17_FlowOrder ==
  InTranscribeFlow =>
    /\ \A i \in DOMAIN events :
         /\ events[i].op \in {"POST", "GET", "SLEEP", "WRITE"}
         /\ events[i].op = "POST" => i = 1
         /\ events[i].op = "WRITE" => (i = Len(events) /\ i > 1 /\ events[i - 1].op = "GET")
         /\ events[i].op = "SLEEP" => (i > 1 /\ events[i - 1].op = "GET")
    /\ NumOps("POST") <= 1
    /\ NumOps("WRITE") <= 1
    /\ (args.audio_url.some /\ NumOps("GET") > 0) => events[1].op = "POST"
    /\ Len(posted) = NumOps("POST")
    /\ Len(polled) = NumOps("GET")
    /\ \E id \in JobIds :
         /\ \A e \in OpsOf("GET") : e.target = Endpoint(ApiUrl, id)
         /\ \A e \in OpsOf("WRITE") : e.target = FileName(id)

C17_Witness ==
  /\ InTranscribeFlow
  /\ Len(events) = 5
  /\ events[1].op = "POST"
  /\ events[2].op = "GET"
  /\ events[3].op = "SLEEP"
  /\ events[4].op = "GET"
  /\ events[5].op = "WRITE"
  /\ pc = "done"

(* ================================ C18 ================================= *)
WriteSucceeded == events # <<>> /\ LastEvent.op = "WRITE" /\ LastEvent.ok

\* C18: once it has polled, the poller has returned success exactly when the
\* last response was "completed" and the file write succeeded; when the
\* response is "completed" and the write fails it returns the storage
\* failure, with no second write, no sleep and no further GET.
C18_SuccessIffWritten ==
  (InTranscribeFlow /\ polled # <<>>) =>
    /\ result = Ok <=> (IsCompleted(LastPolled) /\ WriteSucceeded)
    /\ WriteSucceeded =>
         FromText(files[LastEvent.target].content) = POk(Body(LastPolled), <<>>)
    /\ (IsCompleted(LastPolled) /\ ~WriteSucceeded) =>
         /\ result \in StorageErrors
         /\ pc = "done"
         /\ NumOps("WRITE") <= 1
         /\ NumOps("GET") = Len(polled)
         /\ NumOps("SLEEP") = Len(polled) - 1
         /\ LastEvent.op \in {"GET", "WRITE"}

C18_Witness ==
  /\ InTranscribeFlow
  /\ polled # <<>>
  /\ IsCompleted(LastPolled)
  /\ LastEvent.op = "WRITE"
  /\ ~LastEvent.ok
  /\ result = Err(Msg("io error: write"))
  /\ files[LastEvent.target].exists
  /\ ~FromText(files[LastEvent.target].content).ok

(* ================================ C19 ================================= *)
\* C19: run without an audio URL and without a job identifier does no I/O
\* at all (no POST, no GET, no sleep, no file write) and returns success.
C19_NothingToDo ==
  (cmd = "transcribe" /\ ~args.audio_url.some /\ ~args.transcript_id.some) =>
    /\ events = <<>>
    /\ posted = <<>>
    /\ polled = <<>>
    /\ files = files0
    /\ pc \in {"run", "wait", "done"}
    /\ result = IF pc = "done" THEN Ok ELSE Running

C19_Witness ==
  /\ cmd = "transcribe"
  /\ ~args.audio_url.some
  /\ ~args.transcript_id.some
  /\ pc = "done"
  /\ result = Ok
  /\ events = <<>>
(* ================================ C16 ================================= *)
AllNonTerminal == \A i \in DOMAIN polled : IsNonTerminal(polled[i])

\* however many non-terminal responses came, the poller is pending and its
\* next step is possible; it has returned only after a response that is not
\* non-terminal
StillPolling ==
  /\ (pc = "poll" /\ AllNonTerminal) =>
       /\ result = Running
       /\ NumOps("GET") = Len(polled)
       /\ Len(polled) < MaxPolls => ENABLED PollIteration
  /\ (polled # <<>> /\ AllNonTerminal) => pc = "poll"
  /\ (polled # <<>> /\ pc = "done") => ~IsNonTerminal(LastPolled)

\* a step of the pending poller is one more GET
NextIsGet ==
  pc = "poll" => /\ Len(events') > Len(events)
                 /\ events'[Len(events) + 1].op = "GET"
                 /\ Len(polled') = Len(polled) + 1

\* C16: the poller has no attempt limit: after any number n of non-terminal
\* responses it is still pending and its next step is the (n+1)-th GET; it
\* returns only on a terminal status or a failure, so it never returns while
\* all responses are non-terminal, and it goes on until it returns (in the
\* model: until it returns or MaxPolls responses have come).
C16_NoAttemptLimit ==
  /\ []StillPolling
  /\ [][NextIsGet]_vars
  /\ <>(exited \/ (pc = "poll" /\ Len(polled) = MaxPolls))

C16_Witness ==
  /\ pc = "poll"
  /\ Len(polled) = MaxPolls
  /\ AllNonTerminal
  /\ result = Running
  /\ NumOps("SLEEP") = MaxPolls
(* ================================ C11 ================================= *)
\* a later invocation whose poller received "completed" with the payload
\* that the file of the job held when the invocation started
ResumedCompleted ==
  /\ runs > 1
  /\ polled # <<>>
  /\ IsCompleted(LastPolled)
  /\ files0[FileName(args.transcript_id.v)].exists
  /\ FromText(files0[FileName(args.transcript_id.v)].content) = POk(Body(LastPolled), <<>>)

\* C11: a second invocation for a job that is completed, with the payload
\* unchanged, issues a GET again, writes <job_id>.json again, leaves the file
\* with the content it had after the first run, and returns success.
C11_Original ==
  ResumedCompleted =>
    /\ NumOps("GET") = Len(polled)
    /\ NumOps("WRITE") = 1
    /\ files = files0
    /\ result = Ok

\* C11 (amended): such an invocation issues a GET again and calls the result
\* sink again; the existing file neither blocks nor fails it: it fails only
\* with an I/O error of the write itself, and when the write succeeds it
\* returns success and the file has the content it had after the first run.
C11_ResumeRewrites ==
  ResumedCompleted =>
    /\ pc = "done"
    /\ NumOps("GET") = Len(polled)
    /\ NumOps("POST") = 0
    /\ result = Ok \/ result \in StorageErrors
    /\ result = Ok <=> WriteSucceeded
    /\ result # Err(Msg("io error: current_dir")) =>
         (LastEvent.op = "WRITE" /\ LastEvent.target = FileName(args.transcript_id.v))
    /\ WriteSucceeded => files = files0

C11_Witness ==
  /\ ResumedCompleted
  /\ Len(polled) = 1
  /\ WriteSucceeded
  /\ result = Ok
  /\ files = files0
  /\ files[FileName("J1")].exists
====
